---------------------------- MODULE Spec2Model ----------------------------
(***************************************************************************)
(* The arithmetic evaluator of src/src/calc.rs: tokenize, to_rpn,          *)
(* eval_rpn, format_float and their composition evaluate.                  *)
(*                                                                         *)
(* A string is a sequence of characters.  A printable ASCII character is   *)
(* the string of length one that holds it, "\t" "\n" "\f" "\r" are the     *)
(* four escapes, and any other character is named by its code point, as in *)
(* "U+000B".                                                               *)
(*                                                                         *)
(* The f64 values of the model are the dyadic rationals n / 2^k with       *)
(* |n| <= MaxMag and 2^k <= MaxMag, written [n |-> n, d |-> 2^k] in lowest *)
(* terms with the sign bit neg, the two zeros, the two infinities (d = 0)  *)
(* and NaN (n = 0, d = 0).  Each finite one is an f64 exactly, and a       *)
(* correctly rounded operation on them returns the exact result whenever   *)
(* that result is such a value again.  A step whose exact result is finite *)
(* and not such a value (the f64 is rounded, or beyond MaxMag) is not      *)
(* taken: its guard is false.                                              *)
(***************************************************************************)
EXTENDS Integers, Sequences, FiniteSets, TLC

VARIABLES
    input,          \* evaluate's argument `expression`
    pc,             \* position in evaluate: tokenize, to_rpn, eval_rpn, format, done
    pos,            \* tokenize: index of the character `chars.peek()` yields
    tokens,         \* tokenize: `tokens`, then to_rpn's argument
    expect_unary,   \* tokenize: `expect_unary`
    ti,             \* to_rpn: index of the next token of the for loop
    output,         \* to_rpn: `output`, then eval_rpn's argument `rpn`
    ops,            \* to_rpn: `ops`
    ri,             \* eval_rpn: index of the next token of the for loop
    stack,          \* eval_rpn: `stack`
    value,          \* evaluate: `v`, the value eval_rpn returned
    result          \* evaluate's return value (or its panic)

vars == <<input, pc, pos, tokens, expect_unary, ti, output, ops, ri, stack,
          value, result>>

----------------------------------------------------------------------------
(* Bounds of the model *)

\* longest enumerated input over LexAlphabet
MaxLen == 4
\* longest enumerated input over ArithAlphabet
MaxArithLen == 5
\* largest numerator and denominator of a modelled value
MaxMag == 30000

----------------------------------------------------------------------------
(* Characters *)

Digits == <<"0", "1", "2", "3", "4", "5", "6", "7", "8", "9">>

\* char::is_ascii_digit
is_ascii_digit(c) == \E k \in 1..10 : Digits[k] = c

DigitVal(c) == (CHOOSE k \in 1..10 : Digits[k] = c) - 1

\* char::is_whitespace: the characters with the Unicode property White_Space
is_whitespace(c) ==
    c \in {"\t", "\n", "U+000B", "\f", "\r", " ", "U+0085", "U+00A0",
           "U+1680", "U+2000", "U+2001", "U+2002", "U+2003", "U+2004",
           "U+2005", "U+2006", "U+2007", "U+2008", "U+2009", "U+200A",
           "U+2028", "U+2029", "U+202F", "U+205F", "U+3000"}

\* char::is_ascii_alphabetic
is_ascii_alphabetic(c) ==
    c \in {"a", "b", "c", "d", "e", "f", "g", "h", "i", "j", "k", "l", "m",
           "n", "o", "p", "q", "r", "s", "t", "u", "v", "w", "x", "y", "z",
           "A", "B", "C", "D", "E", "F", "G", "H", "I", "J", "K", "L", "M",
           "N", "O", "P", "Q", "R", "S", "T", "U", "V", "W", "X", "Y", "Z"}

\* char::is_ascii_alphanumeric
is_ascii_alphanumeric(c) == is_ascii_alphabetic(c) \/ is_ascii_digit(c)

----------------------------------------------------------------------------
(* Values: f64 *)

Abs(x) == IF x < 0 THEN -x ELSE x

RECURSIVE GCD(_, _)
GCD(a, b) == IF b = 0 THEN a ELSE GCD(b, a % b)

\* the finite f64 n/d (d > 0), in lowest terms, with its sign bit
Rat(n, d) == LET g == GCD(Abs(n), d)
             IN [n |-> n \div g, d |-> d \div g, neg |-> n < 0]

Zero == Rat(0, 1)
One == Rat(1, 1)

\* 0.0 and -0.0
SignedZero(neg) == [n |-> 0, d |-> 1, neg |-> neg]
\* f64::INFINITY and f64::NEG_INFINITY
Infinity(neg) == [n |-> IF neg THEN -1 ELSE 1, d |-> 0, neg |-> neg]
\* f64::NAN
NaN == [n |-> 0, d |-> 0, neg |-> FALSE]

\* f64::is_nan, f64::is_infinite, f64::is_finite
is_nan(v) == v.d = 0 /\ v.n = 0
is_infinite(v) == v.d = 0 /\ v.n # 0
is_finite(v) == v.d # 0

\* v == 0.0, true of both zeros
IsZero(v) == v.d # 0 /\ v.n = 0

InRange(v) == Abs(v.n) <= MaxMag /\ v.d <= MaxMag

RECURSIVE IsPow2(_)
IsPow2(d) == d = 1 \/ (d % 2 = 0 /\ IsPow2(d \div 2))

\* the rational v is a value of the model: the f64 nearest to it is v itself
Exact(v) == InRange(v) /\ IsPow2(v.d)

\* the outcome of an operation: a value of the model, or "none"
Some(v) == [k |-> "val", v |-> v]
NoVal == [k |-> "none"]

\* the outcome of an operation whose exact result is the rational v: the
\* value v when the f64 result is v exactly, and "none" otherwise
Val(v) == IF Exact(v) THEN Some(v) ELSE NoVal

\* the same, where a result of zero carries the sign bit neg
Signed(v, neg) == IF v.n = 0 THEN Some(SignedZero(neg)) ELSE Val(v)

\* -v
RatNeg(v) ==
    IF is_nan(v) THEN v ELSE [n |-> -v.n, d |-> v.d, neg |-> ~v.neg]

\* a + b: the infinities of opposite sign add to NaN, and a sum of zero is
\* -0.0 only when both terms are
RatAdd(a, b) ==
    IF is_nan(a) \/ is_nan(b) THEN Some(NaN)
    ELSE IF is_infinite(a) /\ is_infinite(b) /\ a.neg # b.neg THEN Some(NaN)
    ELSE IF is_infinite(a) THEN Some(a)
    ELSE IF is_infinite(b) THEN Some(b)
    ELSE Signed(Rat(a.n * b.d + b.n * a.d, a.d * b.d), a.neg /\ b.neg)

\* a - b
RatSub(a, b) == RatAdd(a, RatNeg(b))

\* a * b: infinity times zero is NaN, and the sign is the product of signs
RatMul(a, b) ==
    IF is_nan(a) \/ is_nan(b) THEN Some(NaN)
    ELSE IF (is_infinite(a) /\ IsZero(b)) \/ (IsZero(a) /\ is_infinite(b))
         THEN Some(NaN)
    ELSE IF is_infinite(a) \/ is_infinite(b)
         THEN Some(Infinity(a.neg # b.neg))
    ELSE Signed(Rat(a.n * b.n, a.d * b.d), a.neg # b.neg)

\* a / b for b # 0.0: infinity by infinity is NaN, and the sign is the
\* quotient of signs
RatDiv(a, b) ==
    IF is_nan(a) \/ is_nan(b) THEN Some(NaN)
    ELSE IF is_infinite(a) /\ is_infinite(b) THEN Some(NaN)
    ELSE IF is_infinite(a) THEN Some(Infinity(a.neg # b.neg))
    ELSE IF is_infinite(b) THEN Some(SignedZero(a.neg # b.neg))
    ELSE IF b.n > 0 THEN Signed(Rat(a.n * b.d, a.d * b.n), a.neg # b.neg)
    ELSE Signed(Rat(-(a.n * b.d), a.d * (-b.n)), a.neg # b.neg)

\* the exact product acc * a^e for a natural e; the magnitudes only grow, so
\* a product outside the values of the model puts the result outside too
RECURSIVE RatPowAcc(_, _, _)
RatPowAcc(a, e, acc) ==
    IF e = 0 THEN Val(acc)
    ELSE LET r == RatMul(acc, a)
         IN IF r.k = "val" THEN RatPowAcc(a, e - 1, r.v) ELSE NoVal

\* the exact a^e for a natural e and a finite a # 0; the powers of 1 and -1
\* are read off
RatPowNat(a, e) ==
    IF e = 0 \/ a = One THEN Val(One)
    ELSE IF a = Rat(-1, 1) THEN Val(Rat(IF e % 2 = 0 THEN 1 ELSE -1, 1))
    ELSE RatPowAcc(a, e, One)

\* the exact a^e for an integer e and a finite a # 0
RatPowInt(a, e) ==
    IF e >= 0 THEN RatPowNat(a, e)
    ELSE LET r == RatPowNat(a, -e)
         IN IF r.k = "val" THEN RatDiv(One, r.v) ELSE NoVal

\* the integer square root of a natural, or -1 when it is not a square
ISqrt(x) == IF \E r \in 0..x : r * r = x
            THEN CHOOSE r \in 0..x : r * r = x ELSE -1

\* f64::sqrt for x not below zero: NaN, infinity and the zeros are their own
\* roots, and a finite root is exact only for a quotient of squares
RatSqrt(x) ==
    IF ~is_finite(x) \/ x.n = 0 THEN Some(x)
    ELSE IF ISqrt(x.n) >= 0 /\ ISqrt(x.d) >= 0
         THEN Val(Rat(ISqrt(x.n), ISqrt(x.d)))
    ELSE NoVal

\* the exact q-th root of a finite a > 0 for q a power of two, by repeated
\* square roots
RECURSIVE RatRoot(_, _)
RatRoot(a, q) ==
    IF q = 1 THEN Val(a)
    ELSE LET r == RatSqrt(a)
         IN IF r.k = "val" THEN RatRoot(r.v, q \div 2) ELSE NoVal

\* y is an odd integer
IsOddInt(y) == y.d = 1 /\ y.n % 2 = 1

\* f64::powf(x, y).  x^0 = 1 and 1^y = 1 for every x and y, NaN included;
\* otherwise a NaN operand gives NaN; a zero or an infinity raised to y, and
\* x raised to an infinity, give a zero or an infinity, negative only for a
\* negative x and an odd integer y; a negative x with a fractional y gives
\* NaN; and the finite cases are the exact power y.n of the exact root y.d
\* of x, taken as the result when it is a value of the model.
RatPow(x, y) ==
    IF IsZero(y) \/ x = One THEN Some(One)
    ELSE IF is_nan(x) \/ is_nan(y) THEN Some(NaN)
    ELSE IF IsZero(x)
         THEN IF y.n < 0 THEN Some(Infinity(x.neg /\ IsOddInt(y)))
              ELSE Some(SignedZero(x.neg /\ IsOddInt(y)))
    ELSE IF is_infinite(y)
         THEN IF x = Rat(-1, 1) THEN Some(One)
              ELSE IF (is_finite(x) /\ Abs(x.n) < x.d) = (y.n > 0)
                   THEN Some(Zero)
              ELSE Some(Infinity(FALSE))
    ELSE IF is_infinite(x)
         THEN IF y.n < 0 THEN Some(SignedZero(x.neg /\ IsOddInt(y)))
              ELSE Some(Infinity(x.neg /\ IsOddInt(y)))
    ELSE IF y.d = 1 THEN RatPowInt(x, y.n)
    ELSE IF x.n < 0 THEN Some(NaN)
    ELSE LET r == RatRoot(x, y.d)
         IN IF r.k = "val" THEN RatPowInt(r.v, y.n) ELSE NoVal

\* f64::sin, f64::tan: NaN off the finite values, the zeros map to
\* themselves, and no other value of the model has an exact image
RatSinTan(x) ==
    IF ~is_finite(x) THEN Some(NaN)
    ELSE IF x.n = 0 THEN Some(x) ELSE NoVal
\* f64::cos: NaN off the finite values, 1 at the zeros
RatCos(x) ==
    IF ~is_finite(x) THEN Some(NaN)
    ELSE IF x.n = 0 THEN Some(One) ELSE NoVal

----------------------------------------------------------------------------
(* Tokens *)

Number(v)  == [t |-> "Number", v |-> v]
Op(op)     == [t |-> "Op", op |-> op]
LParen     == [t |-> "LParen"]
RParen     == [t |-> "RParen"]
Ident(nm)  == [t |-> "Ident", name |-> nm]
Func(nm)   == [t |-> "Func", name |-> nm]

\* Op::precedence
precedence(op) ==
    CASE op \in {"Add", "Sub"} -> 1
      [] op \in {"Mul", "Div"} -> 2
      [] op = "Pow" -> 3

\* a slip in is_right_associative: no operator is right-associative
is_right_associative_none(op) == FALSE

\* Op::is_right_associative
is_right_associative(op) == op = "Pow"

----------------------------------------------------------------------------
(* Results of evaluate *)

Ok(text)   == [k |-> "Ok", text |-> text]
Err(msg)   == [k |-> "Err", msg |-> msg]
Panic      == [k |-> "panic"]
None       == [k |-> "none"]

ErrNumber        == "invalid number format"
ErrUnknownChar   == "unknown character"
ErrParen         == "mismatched parentheses"
ErrOperands      == "insufficient operands"
ErrSqrtDomain    == "sqrt of a negative number"
ErrUnknownFunc   == "unknown function"
ErrNotFinite     == "invalid result"
ErrDivZero       == "division by zero"
ErrRpnToken      == "bad token in RPN"
ErrMalformed     == "malformed expression"


----------------------------------------------------------------------------
(* tokenize *)

\* the natural that the digits s denote after the digits of acc, or -1 when
\* it exceeds MaxMag
RECURSIVE DigitsToNat(_, _)
DigitsToNat(s, acc) ==
    IF acc > MaxMag THEN -1
    ELSE IF s = <<>> THEN acc
    ELSE DigitsToNat(Tail(s), 10 * acc + DigitVal(Head(s)))

\* the fraction 0.s that the digits s denote, from the last digit back; the
\* fraction of every suffix of a value of the model is a value of the model
RECURSIVE DigitsToFrac(_)
DigitsToFrac(s) ==
    IF s = <<>> THEN Val(Zero)
    ELSE LET r == DigitsToFrac(Tail(s))
         IN IF r.k = "val"
            THEN Val(Rat(DigitVal(Head(s)) * r.v.d + r.v.n, 10 * r.v.d))
            ELSE NoVal

\* str::parse::<f64> on the text the number scan collects (digits and at
\* most one dot): "" and "." are errors, "5." and ".5" are numbers, and the
\* result is the f64 nearest to the decimal
ParseF64(s) ==
    LET dot   == IF \E i \in 1..Len(s) : s[i] = "."
                 THEN CHOOSE i \in 1..Len(s) : s[i] = "." ELSE Len(s) + 1
        whole == DigitsToNat(SubSeq(s, 1, dot - 1), 0)
        frac  == DigitsToFrac(SubSeq(s, dot + 1, Len(s)))
    IN IF SelectSeq(s, is_ascii_digit) = <<>> THEN [k |-> "err"]
       ELSE IF whole < 0 \/ frac.k # "val" THEN NoVal
       ELSE RatAdd(Rat(whole, 1), frac.v)

\* the inner loop of the number branch: the index of the first character it
\* does not consume, starting at i with the given dot_seen
RECURSIVE ScanNumber(_, _, _)
ScanNumber(inp, i, dot_seen) ==
    IF i > Len(inp) THEN i
    ELSE IF is_ascii_digit(inp[i]) THEN ScanNumber(inp, i + 1, dot_seen)
    ELSE IF inp[i] = "." THEN
        IF dot_seen THEN i ELSE ScanNumber(inp, i + 1, TRUE)
    ELSE i

\* the inner loop of the identifier branch
RECURSIVE ScanIdent(_, _)
ScanIdent(inp, i) ==
    IF i > Len(inp) THEN i
    ELSE IF is_ascii_alphanumeric(inp[i]) \/ inp[i] = "_"
         THEN ScanIdent(inp, i + 1)
    ELSE i

\* a slip in the `-` arm: a binary minus leaves expect_unary as it was
LexSymbolKeepFlag(ch, eu) ==
    CASE ch = "+" -> [ok |-> TRUE, toks |-> <<Op("Add")>>, eu |-> TRUE]
      [] ch = "-" ->
            IF eu
            THEN [ok |-> TRUE, toks |-> <<Number(Zero), Op("Sub")>>, eu |-> eu]
            ELSE [ok |-> TRUE, toks |-> <<Op("Sub")>>, eu |-> eu]
      [] ch = "*" -> [ok |-> TRUE, toks |-> <<Op("Mul")>>, eu |-> TRUE]
      [] ch = "/" -> [ok |-> TRUE, toks |-> <<Op("Div")>>, eu |-> TRUE]
      [] ch = "^" -> [ok |-> TRUE, toks |-> <<Op("Pow")>>, eu |-> TRUE]
      [] ch = "(" -> [ok |-> TRUE, toks |-> <<LParen>>, eu |-> TRUE]
      [] ch = ")" -> [ok |-> TRUE, toks |-> <<RParen>>, eu |-> FALSE]
      [] OTHER    -> [ok |-> FALSE]

\* the `match ch` of tokenize: the tokens pushed and the new expect_unary,
\* or no entry for a character that is an error
LexSymbol(ch, eu) ==
    CASE ch = "+" -> [ok |-> TRUE, toks |-> <<Op("Add")>>, eu |-> TRUE]
      [] ch = "-" ->
            IF eu
            THEN [ok |-> TRUE, toks |-> <<Number(Zero), Op("Sub")>>, eu |-> eu]
            ELSE [ok |-> TRUE, toks |-> <<Op("Sub")>>, eu |-> TRUE]
      [] ch = "*" -> [ok |-> TRUE, toks |-> <<Op("Mul")>>, eu |-> TRUE]
      [] ch = "/" -> [ok |-> TRUE, toks |-> <<Op("Div")>>, eu |-> TRUE]
      [] ch = "^" -> [ok |-> TRUE, toks |-> <<Op("Pow")>>, eu |-> TRUE]
      [] ch = "(" -> [ok |-> TRUE, toks |-> <<LParen>>, eu |-> TRUE]
      [] ch = ")" -> [ok |-> TRUE, toks |-> <<RParen>>, eu |-> FALSE]
      [] OTHER    -> [ok |-> FALSE]

\* evaluate returns the error of a failed stage
Fail(msg) ==
    /\ pc' = "done"
    /\ result' = Err(msg)

TokUnchanged == UNCHANGED <<input, ti, output, ops, ri, stack, value>>

\* whitespace is skipped
TokWhitespace ==
    /\ pc = "tokenize" /\ pos <= Len(input)
    /\ is_whitespace(input[pos])
    /\ pos' = pos + 1
    /\ UNCHANGED <<pc, tokens, expect_unary, result>>
    /\ TokUnchanged

\* a number literal
TokNumber ==
    /\ pc = "tokenize" /\ pos <= Len(input)
    /\ is_ascii_digit(input[pos]) \/ input[pos] = "."
    /\ LET end == ScanNumber(input, pos, input[pos] = ".")
           num == ParseF64(SubSeq(input, pos, end - 1))
       IN /\ num.k # "none"
          /\ IF num.k = "err"
             THEN /\ Fail(ErrNumber)
                  /\ UNCHANGED <<pos, tokens, expect_unary>>
             ELSE /\ pos' = end
                  /\ tokens' = Append(tokens, Number(num.v))
                  /\ expect_unary' = FALSE
                  /\ UNCHANGED <<pc, result>>
    /\ TokUnchanged

\* a function name or identifier
TokIdent ==
    /\ pc = "tokenize" /\ pos <= Len(input)
    /\ is_ascii_alphabetic(input[pos])
    /\ LET end == ScanIdent(input, pos)
       IN /\ pos' = end
          /\ tokens' = Append(tokens, Ident(SubSeq(input, pos, end - 1)))
          /\ expect_unary' = TRUE
    /\ UNCHANGED <<pc, result>>
    /\ TokUnchanged

\* an operator, a parenthesis or an unknown character
TokSymbol ==
    /\ pc = "tokenize" /\ pos <= Len(input)
    /\ LET ch == input[pos] IN
       /\ ~is_whitespace(ch)
       /\ ~(is_ascii_digit(ch) \/ ch = ".")
       /\ ~is_ascii_alphabetic(ch)
       /\ LET r == LexSymbol(ch, expect_unary)
          IN IF r.ok
             THEN /\ pos' = pos + 1
                  /\ tokens' = tokens \o r.toks
                  /\ expect_unary' = r.eu
                  /\ UNCHANGED <<pc, result>>
             ELSE /\ Fail(ErrUnknownChar)
                  /\ UNCHANGED <<pos, tokens, expect_unary>>
    /\ TokUnchanged

\* end of input: tokenize returns Ok(tokens) and evaluate calls to_rpn
TokReturn ==
    /\ pc = "tokenize" /\ pos > Len(input)
    /\ pc' = "to_rpn"
    /\ UNCHANGED <<pos, tokens, expect_unary, result>>
    /\ TokUnchanged

----------------------------------------------------------------------------
(* to_rpn *)

Last(s) == s[Len(s)]
Front(s) == SubSeq(s, 1, Len(s) - 1)

\* a slip in the pop condition: precedence is ignored, every operator pops
ShouldPopAlways(op1, op2) == TRUE

\* the condition under which Operator(op1) pops Operator(op2) off the stack
ShouldPop(op1, op2) ==
    \/ precedence(op1) < precedence(op2)
    \/ precedence(op1) = precedence(op2) /\ ~is_right_associative(op1)

\* the while loop of the Op branch
RECURSIVE PopOps(_, _, _)
PopOps(op1, out, st) ==
    IF st # <<>> /\ Last(st).t = "Op" /\ ShouldPop(op1, Last(st).op)
    THEN PopOps(op1, Append(out, Last(st)), Front(st))
    ELSE [output |-> out, ops |-> st]

\* a slip in the RParen loop: the popped entries are not pushed to output
RECURSIVE CloseParenDropping(_, _)
CloseParenDropping(out, st) ==
    IF st = <<>> THEN [output |-> out, ops |-> st]
    ELSE LET top == Last(st)
             rest == Front(st)
         IN IF top.t = "LParen"
            THEN IF rest # <<>> /\ Last(rest).t = "Ident"
                 THEN [output |-> Append(out, Func(Last(rest).name)),
                       ops |-> Front(rest)]
                 ELSE [output |-> out, ops |-> rest]
            ELSE CloseParenDropping(out, rest)

\* the while loop of the RParen branch: pops to the nearest LParen, or to
\* the bottom of the stack when there is none
RECURSIVE CloseParen(_, _)
CloseParen(out, st) ==
    IF st = <<>> THEN [output |-> out, ops |-> st]
    ELSE LET top == Last(st)
             rest == Front(st)
         IN IF top.t = "LParen"
            THEN IF rest # <<>> /\ Last(rest).t = "Ident"
                 THEN [output |-> Append(out, Func(Last(rest).name)),
                       ops |-> Front(rest)]
                 ELSE [output |-> out, ops |-> rest]
            ELSE CloseParen(Append(out, top), rest)

\* the body of to_rpn's for loop for one token
RpnToken(tok, out, st) ==
    CASE tok.t = "Number" -> [output |-> Append(out, tok), ops |-> st]
      [] tok.t = "Ident"  -> [output |-> out, ops |-> Append(st, tok)]
      [] tok.t = "Func"   -> [output |-> Append(out, tok), ops |-> st]
      [] tok.t = "Op"     ->
            LET r == PopOps(tok.op, out, st)
            IN [output |-> r.output, ops |-> Append(r.ops, tok)]
      [] tok.t = "LParen" -> [output |-> out, ops |-> Append(st, tok)]
      [] tok.t = "RParen" -> CloseParen(out, st)

\* the final while loop of to_rpn
RECURSIVE Drain(_, _)
Drain(out, st) ==
    IF st = <<>> THEN [ok |-> TRUE, output |-> out]
    ELSE IF Last(st).t \in {"LParen", "RParen"} THEN [ok |-> FALSE]
    ELSE Drain(Append(out, Last(st)), Front(st))

RpnUnchanged == UNCHANGED <<input, pos, tokens, expect_unary, ri, stack, value>>

\* one iteration of to_rpn's for loop
ToRpnStep ==
    /\ pc = "to_rpn" /\ ti <= Len(tokens)
    /\ LET r == RpnToken(tokens[ti], output, ops)
       IN /\ output' = r.output
          /\ ops' = r.ops
    /\ ti' = ti + 1
    /\ UNCHANGED <<pc, result>>
    /\ RpnUnchanged

\* the for loop is over: the stack is drained and to_rpn returns
ToRpnReturn ==
    /\ pc = "to_rpn" /\ ti > Len(tokens)
    /\ LET r == Drain(output, ops)
       IN IF r.ok
          THEN /\ output' = r.output
               /\ ops' = <<>>
               /\ pc' = "eval_rpn"
               /\ UNCHANGED result
          ELSE /\ Fail(ErrParen)
               /\ UNCHANGED <<output, ops>>
    /\ UNCHANGED ti
    /\ RpnUnchanged

----------------------------------------------------------------------------
(* eval_rpn *)

FnSqrt == <<"s", "q", "r", "t">>
FnSin  == <<"s", "i", "n">>
FnCos  == <<"c", "o", "s">>
FnTan  == <<"t", "a", "n">>

\* a slip in the pops: a is popped first, then b
OperandsSwapped(st) == [a |-> st[Len(st)], b |-> st[Len(st) - 1]]

\* the operands of a binary operator: b is popped first, then a
Operands(st) == [a |-> st[Len(st) - 1], b |-> st[Len(st)]]

\* the `match op` of eval_rpn
ApplyOp(op, a, b) ==
    CASE op = "Add" -> RatAdd(a, b)
      [] op = "Sub" -> RatSub(a, b)
      [] op = "Mul" -> RatMul(a, b)
      [] op = "Div" -> IF IsZero(b) THEN [k |-> "err", msg |-> ErrDivZero]
                       ELSE RatDiv(a, b)
      [] op = "Pow" -> RatPow(a, b)

\* the `match name.as_str()` of eval_rpn
ApplyFunc(name, x) ==
    CASE name = FnSqrt -> IF x.n < 0 THEN [k |-> "err", msg |-> ErrSqrtDomain]
                          ELSE RatSqrt(x)
      [] name = FnSin  -> RatSinTan(x)
      [] name = FnCos  -> RatCos(x)
      [] name = FnTan  -> RatSinTan(x)
      [] OTHER         -> [k |-> "err", msg |-> ErrUnknownFunc]

\* the body of eval_rpn's for loop for one token: the new stack ("val"), an
\* error, a panic, or "none" for a result that is no value of the model
EvalToken(tok, st) ==
    CASE tok.t = "Number" -> [k |-> "val", stack |-> Append(st, tok.v)]
      [] tok.t = "Func" ->
            IF st = <<>> THEN [k |-> "err", msg |-> ErrOperands]
            ELSE LET v == ApplyFunc(tok.name, Last(st))
                 IN IF v.k = "val"
                    THEN IF is_finite(v.v)
                         THEN [k |-> "val", stack |-> Append(Front(st), v.v)]
                         ELSE [k |-> "err", msg |-> ErrNotFinite]
                    ELSE v
      [] tok.t = "Op" ->
            IF Len(st) < 2 THEN [k |-> "err", msg |-> ErrOperands]
            ELSE LET o == Operands(st)
                     v == ApplyOp(tok.op, o.a, o.b)
                 IN IF v.k = "val"
                    THEN [k |-> "val",
                          stack |-> Append(SubSeq(st, 1, Len(st) - 2), v.v)]
                    ELSE v
      [] tok.t \in {"LParen", "RParen"} -> [k |-> "err", msg |-> ErrRpnToken]
      [] tok.t = "Ident" -> [k |-> "panic"]

\* a slip in the final check: extra values left on the stack are accepted
SingleValueOrMore(st) == Len(st) >= 1

\* the final check of eval_rpn
SingleValue(st) == Len(st) = 1

EvalUnchanged ==
    UNCHANGED <<input, pos, tokens, expect_unary, ti, output, ops>>

\* one iteration of eval_rpn's for loop
EvalStep ==
    /\ pc = "eval_rpn" /\ ri <= Len(output)
    /\ LET r == EvalToken(output[ri], stack)
       IN /\ r.k # "none"
          /\ CASE r.k = "val" ->
                    /\ stack' = r.stack
                    /\ ri' = ri + 1
                    /\ UNCHANGED <<pc, result>>
               [] r.k = "err" ->
                    /\ Fail(r.msg)
                    /\ UNCHANGED <<stack, ri>>
               [] r.k = "panic" ->
                    /\ pc' = "panicked"
                    /\ UNCHANGED <<stack, ri, result>>
    /\ UNCHANGED value
    /\ EvalUnchanged

\* the for loop is over: eval_rpn returns the single value or fails
EvalReturn ==
    /\ pc = "eval_rpn" /\ ri > Len(output)
    /\ IF SingleValue(stack)
       THEN /\ value' = stack[1]
            /\ pc' = "format"
            /\ UNCHANGED result
       ELSE /\ Fail(ErrMalformed)
            /\ UNCHANGED value
    /\ UNCHANGED <<stack, ri>>
    /\ EvalUnchanged

----------------------------------------------------------------------------
(* format_float *)

\* the digits after the decimal point that format!("{:.12}") prints
FracPrecision == 12

\* the decimal digits of a natural, most significant first
RECURSIVE NatDigits(_)
NatDigits(q) ==
    IF q < 10 THEN <<q>> ELSE Append(NatDigits(q \div 10), q % 10)

\* the first k digits of r/d (r < d) after the decimal point, by long division
RECURSIVE FracDigits(_, _, _)
FracDigits(r, d, k) ==
    IF k = 0 THEN <<>>
    ELSE <<(r * 10) \div d>> \o FracDigits((r * 10) % d, d, k - 1)

\* the remainder left after k digits of r/d
RECURSIVE FracRem(_, _, _)
FracRem(r, d, k) == IF k = 0 THEN r ELSE FracRem((r * 10) % d, d, k - 1)

\* a digit string plus one in its last place
RECURSIVE AddOne(_)
AddOne(ds) ==
    IF ds = <<>> THEN <<1>>
    ELSE IF Last(ds) < 9 THEN Append(Front(ds), Last(ds) + 1)
    ELSE Append(AddOne(Front(ds)), 0)

DigitChars(ds) == [i \in 1..Len(ds) |-> Digits[ds[i] + 1]]

\* the digits of format!("{:.12}", v) for a finite v: integer part, ".",
\* twelve digits, rounded to nearest with ties to even
FixedDigits(v) ==
    LET a     == Abs(v.n)
        whole == NatDigits(a \div v.d)
        frac  == FracDigits(a % v.d, v.d, FracPrecision)
        rem   == FracRem(a % v.d, v.d, FracPrecision)
        all   == whole \o frac
        up    == 2 * rem > v.d \/ (2 * rem = v.d /\ Last(all) % 2 = 1)
        digs  == IF up THEN AddOne(all) ELSE all
        nw    == Len(digs) - FracPrecision
    IN DigitChars(SubSeq(digs, 1, nw)) \o <<".">>
       \o DigitChars(SubSeq(digs, nw + 1, Len(digs)))

\* format!("{:.12}", v): "NaN", or the sign and "inf" or the digits
FixedPoint(v) ==
    IF is_nan(v) THEN <<"N", "a", "N">>
    ELSE (IF v.neg THEN <<"-">> ELSE <<>>)
         \o (IF is_infinite(v) THEN <<"i", "n", "f">> ELSE FixedDigits(v))

\* str::trim_end_matches(c)
RECURSIVE trim_end_matches(_, _)
trim_end_matches(s, c) ==
    IF s # <<>> /\ Last(s) = c THEN trim_end_matches(Front(s), c) ELSE s

format_float(v) ==
    IF IsZero(v) THEN <<"0">>
    ELSE LET s == trim_end_matches(trim_end_matches(FixedPoint(v), "0"), ".")
         IN IF s = <<"-", "0">> THEN <<"0">> ELSE s

\* evaluate formats the value and returns it
Format ==
    /\ pc = "format"
    /\ result' = Ok(format_float(value))
    /\ pc' = "done"
    /\ UNCHANGED <<input, pos, tokens, expect_unary, ti, output, ops, ri,
                   stack, value>>

----------------------------------------------------------------------------
(* Inputs and the specification *)

\* the sequences over S of length at most n
SeqsUpTo(S, n) == UNION {[1..k -> S] : k \in 0..n}

LexAlphabet == {"1", ".", "-", "+", "s", "(", ")", " "}
ArithAlphabet == {"0", "2", "3", "-", "/", "^", "(", ")"}

\* expressions the documentation of the evaluator names
Ex_1plus2R     == <<"1", " ", "+", " ", "2", ")">>
Ex_L1plus2     == <<"(", "1", " ", "+", " ", "2">>
Ex_neg2pow2    == <<"-", "2", " ", "^", " ", "2">>
Ex_dot5        == <<".", "5">>
Ex_2plus3      == <<"2", " ", "+", " ", "3">>
Ex_2plus3mul4  == <<"2", " ", "+", " ", "3", " ", "*", " ", "4">>
Ex_P2plus3mul4 == <<"(", "2", " ", "+", " ", "3", ")", " ", "*", " ", "4">>
Ex_2pow3pow2   == <<"2", " ", "^", " ", "3", " ", "^", " ", "2">>
Ex_sqrt16      == <<"s", "q", "r", "t", "(", "1", "6", ")">>
Ex_sqrtneg1    == <<"s", "q", "r", "t", "(", "-", "1", ")">>
Ex_1div0       == <<"1", " ", "/", " ", "0">>
Ex_1div2minus2 == <<"1", " ", "/", " ", "(", "2", " ", "-", " ", "2", ")">>
Ex_empty       == <<>>
Ex_plus        == <<"+">>
Ex_plus5       == <<"+", "5">>
Ex_1div8       == <<"1", " ", "/", " ", "8">>
Ex_4pow_half   == <<"4", "^", "0", ".", "5">>
Ex_formfeed    == <<"1", "\f", "+", "U+3000", "2">>
Ex_0pow_neg1   == <<"0", "^", "(", "0", "-", "1", ")">>
Ex_sqrt_inf    == <<"s", "q", "r", "t", "(", "0", "^", "(", "0", "-", "1",
                     ")", ")">>
Ex_neg4pow_half == <<"(", "0", "-", "4", ")", "^", "0", ".", "5">>
Ex_sin2p3      == <<"s", "i", "n", " ", "2", " ", "(", "3", ")">>
Ex_2hash3      == <<"2", "#", "3">>
Ex_xminus2     == <<"x", " ", "-", " ", "2">>
Ex_cos0        == <<"c", "o", "s", "(", "0", ")">>

Examples ==
    {Ex_1plus2R, Ex_L1plus2, Ex_neg2pow2, Ex_dot5, Ex_2plus3, Ex_2plus3mul4,
     Ex_P2plus3mul4, Ex_2pow3pow2, Ex_sqrt16, Ex_sqrtneg1, Ex_1div0,
     Ex_1div2minus2, Ex_empty, Ex_plus, Ex_plus5, Ex_1div8, Ex_4pow_half,
     Ex_formfeed, Ex_0pow_neg1, Ex_sqrt_inf, Ex_neg4pow_half, Ex_sin2p3,
     Ex_2hash3, Ex_xminus2, Ex_cos0}

Inputs ==
    Examples \cup SeqsUpTo(LexAlphabet, MaxLen)
             \cup SeqsUpTo(ArithAlphabet, MaxArithLen)

\* evaluate is called with an expression
Init ==
    /\ input \in Inputs
    /\ pc = "tokenize"
    /\ pos = 1
    /\ tokens = <<>>
    /\ expect_unary = TRUE
    /\ ti = 1
    /\ output = <<>>
    /\ ops = <<>>
    /\ ri = 1
    /\ stack = <<>>
    /\ value = None
    /\ result = None

Next ==
    \/ TokWhitespace
    \/ TokNumber
    \/ TokIdent
    \/ TokSymbol
    \/ TokReturn
    \/ ToRpnStep
    \/ ToRpnReturn
    \/ EvalStep
    \/ EvalReturn
    \/ Format

Spec == Init /\ [][Next]_vars

----------------------------------------------------------------------------
(* Properties *)

\* the number of entries of s that are in the set S
Count(s, S) == Cardinality({i \in 1..Len(s) : s[i] \in S})

IsNumber(tok) == tok.t = "Number"

\* tokenize has returned Ok(tokens)
Tokenized == pc # "tokenize" /\ pos > Len(input)

\* some RParen of toks has no LParen before it left to match
UnmatchedRParen(toks) ==
    \E i \in 1..Len(toks) :
        /\ toks[i].t = "RParen"
        /\ Count(SubSeq(toks, 1, i), {RParen})
             > Count(SubSeq(toks, 1, i), {LParen})

\* C1: a right parenthesis with no matching left parenthesis is rejected:
\* to_rpn never returns Ok for tokens that hold an unmatched RParen, and
\* evaluate("1 + 2)") fails with the mismatched-parentheses error as
\* evaluate("(1 + 2") does.
C1_UnmatchedRParenRejected ==
    /\ UnmatchedRParen(tokens) => pc # "eval_rpn"
    /\ (pc = "done" /\ input \in {Ex_1plus2R, Ex_L1plus2})
          => result = Err(ErrParen)

\* C3: a successful to_rpn output holds no Identifier, LeftParen or
\* RightParen token, so eval_rpn never reaches its internal-consistency
\* branches and evaluate never aborts.
C3_NoStrayTokenInRpn ==
    /\ pc = "eval_rpn" =>
          \A i \in 1..Len(output) :
              output[i].t \notin {"Ident", "LParen", "RParen"}
    /\ pc # "panicked"
    /\ result # Err(ErrRpnToken)

\* C4: for input that begins with `.` followed by a digit the number scan
\* consumes the dot and the digits and emits one Number token, without a
\* lex error.
C4_LeadingDotAccepted ==
    (Len(input) >= 2 /\ input[1] = "." /\ is_ascii_digit(input[2]))
        => /\ result # Err(ErrNumber)
           /\ pos > 1 => (pos > 2 /\ tokens # <<>> /\ tokens[1].t = "Number")

\* C9: an Identifier becomes a Function only if it is immediately followed
\* in the token sequence by a LeftParen: every Func of the output has the
\* name of an Identifier whose next token is LeftParen.
C9_FuncOnlyBeforeLParen ==
    \A k \in 1..Len(output) :
        output[k].t = "Func" =>
            \E j \in 1..(Len(tokens) - 1) :
                /\ tokens[j] = Ident(output[k].name)
                /\ tokens[j + 1].t = "LParen"

OpNames == {"Add", "Sub", "Mul", "Div", "Pow"}

\* the names carried by the Ident and Func tokens of s
NamesOf(s) == {s[i].name : i \in {j \in 1..Len(s) : s[j].t \in {"Ident", "Func"}}}

\* C10: whenever to_rpn succeeds, its output is the input with the
\* parentheses removed and the rest rearranged: the Number tokens keep their
\* order, every Operator appears exactly once, every Identifier appears
\* exactly once (as Function or Identifier), and the output is as long as
\* the input less its parenthesis tokens.
C10_RpnIsRearrangement ==
    pc = "eval_rpn" =>
        /\ SelectSeq(output, IsNumber) = SelectSeq(tokens, IsNumber)
        /\ \A op \in OpNames :
              Count(output, {Op(op)}) = Count(tokens, {Op(op)})
        /\ \A nm \in NamesOf(tokens) \cup NamesOf(output) :
              Count(output, {Ident(nm), Func(nm)}) = Count(tokens, {Ident(nm)})
        /\ Len(output) = Len(tokens) - Count(tokens, {LParen, RParen})

\* to_rpn has turned "(2 + 3) * 4" into 2 3 + 4 *
C10_Witness ==
    /\ pc = "eval_rpn"
    /\ input = Ex_P2plus3mul4
    /\ output = <<Number(Rat(2, 1)), Number(Rat(3, 1)), Op("Add"),
                  Number(Rat(4, 1)), Op("Mul")>>

\* the size of the value stack after the tokens i.. of rpn, started at size
\* d, or -1 when some Operator finds fewer than two values or some Function
\* none
RECURSIVE DepthAfter(_, _, _)
DepthAfter(rpn, i, d) ==
    IF i > Len(rpn) THEN d
    ELSE CASE rpn[i].t = "Number" -> DepthAfter(rpn, i + 1, d + 1)
           [] rpn[i].t = "Op" ->
                 IF d < 2 THEN -1 ELSE DepthAfter(rpn, i + 1, d - 1)
           [] rpn[i].t = "Func" ->
                 IF d < 1 THEN -1 ELSE DepthAfter(rpn, i + 1, d)
           [] OTHER -> -1

\* the next token of eval_rpn pops more values than the stack holds
PopFindsEmpty ==
    /\ pc = "eval_rpn" /\ ri <= Len(output)
    /\ \/ output[ri].t = "Op" /\ Len(stack) < 2
       \/ output[ri].t = "Func" /\ stack = <<>>

\* eval_rpn is at the end of the sequence with no value or several
EndsWithoutSingleValue ==
    /\ pc = "eval_rpn" /\ ri > Len(output)
    /\ Len(stack) # 1

\* C7: missing operands are rejected by the evaluator, not the tokenizer:
\* tokenize succeeds on "", "+" and "+5" (a leading + is a binary Add);
\* eval_rpn returns a value only if every Operator found two values, every
\* Function one, and exactly one value remains; a pop that finds the stack
\* empty fails with "insufficient operands" and a final stack of 0 or at
\* least 2 values with "malformed expression".
C7_MissingOperands ==
    /\ [](input \in {Ex_empty, Ex_plus, Ex_plus5} =>
            /\ result \notin {Err(ErrNumber), Err(ErrUnknownChar)}
            /\ pc = "to_rpn" =>
                  tokens = CASE input = Ex_empty -> <<>>
                             [] input = Ex_plus  -> <<Op("Add")>>
                             [] input = Ex_plus5 ->
                                   <<Op("Add"), Number(Rat(5, 1))>>)
    /\ [](pc = "format" => DepthAfter(output, 1, 0) = 1 /\ Len(stack) = 1)
    /\ [][PopFindsEmpty => pc' = "done" /\ result' = Err(ErrOperands)]_vars
    /\ [][EndsWithoutSingleValue =>
            pc' = "done" /\ result' = Err(ErrMalformed)]_vars

\* evaluate("+5") has tokenized to Add, 5 and failed in eval_rpn with
\* "insufficient operands"
C7_Witness ==
    /\ pc = "done"
    /\ input = Ex_plus5
    /\ tokens = <<Op("Add"), Number(Rat(5, 1))>>
    /\ ri = 2 /\ stack = <<Rat(5, 1)>>
    /\ result = Err(ErrOperands)

\* the next token of eval_rpn is a Div and the value it pops first is zero
DivByZeroNext ==
    /\ pc = "eval_rpn" /\ ri <= Len(output)
    /\ output[ri] = Op("Div")
    /\ Len(stack) >= 2
    /\ IsZero(Last(stack))

\* C6: whenever eval_rpn executes a Div whose right-hand operand (the value
\* popped first) is zero, literal or computed, evaluation stops with the
\* division-by-zero error and no value is returned; evaluate("1 / 0") and
\* evaluate("1 / (2 - 2)") fail with the same message.
C6_DivisionByZero ==
    /\ [][DivByZeroNext =>
            pc' = "done" /\ result' = Err(ErrDivZero) /\ value' = None]_vars
    /\ []((pc = "done" /\ input \in {Ex_1div0, Ex_1div2minus2})
            => result = Err(ErrDivZero))

\* evaluate("1 / (2 - 2)") has failed on the computed zero divisor
C6_Witness ==
    /\ pc = "done"
    /\ input = Ex_1div2minus2
    /\ ri = 5 /\ output[ri] = Op("Div")
    /\ stack = <<Rat(1, 1), Zero>>
    /\ result = Err(ErrDivZero)

----------------------------------------------------------------------------
(* The value of an infix expression by the precedence table, independent of
   to_rpn: a recursive-descent reading of the grammar
       sum     ::= product (("+" | "-") product)*      left to right
       product ::= power (("*" | "/") power)*          left to right
       power   ::= primary ("^" power)?                right to left
       primary ::= Number | "(" sum ")"
   Each reader takes the index of the first token and yields the outcome r
   of the sub-expression and the index after it, or ok = FALSE. *)

\* a op b on outcomes; the first operand that has no value decides
Combine(op, l, r) ==
    IF l.k # "val" THEN l
    ELSE IF r.k # "val" THEN r
    ELSE ApplyOp(op, l.v, r.v)

IsOpIn(toks, i, S) == i <= Len(toks) /\ toks[i].t = "Op" /\ toks[i].op \in S

RECURSIVE RefSum(_, _), RefSumTail(_, _, _), RefProduct(_, _),
          RefProductTail(_, _, _), RefPower(_, _), RefPrimary(_, _)

RefPrimary(toks, i) ==
    IF i > Len(toks) THEN [ok |-> FALSE]
    ELSE IF toks[i].t = "Number"
         THEN [ok |-> TRUE, r |-> [k |-> "val", v |-> toks[i].v], next |-> i + 1]
    ELSE IF toks[i].t = "LParen"
         THEN LET e == RefSum(toks, i + 1)
              IN IF e.ok /\ e.next <= Len(toks) /\ toks[e.next].t = "RParen"
                 THEN [ok |-> TRUE, r |-> e.r, next |-> e.next + 1]
                 ELSE [ok |-> FALSE]
    ELSE [ok |-> FALSE]

RefPower(toks, i) ==
    LET p == RefPrimary(toks, i)
    IN IF p.ok /\ IsOpIn(toks, p.next, {"Pow"})
       THEN LET q == RefPower(toks, p.next + 1)
            IN IF q.ok
               THEN [ok |-> TRUE, r |-> Combine("Pow", p.r, q.r), next |-> q.next]
               ELSE [ok |-> FALSE]
       ELSE p

RefProductTail(toks, acc, i) ==
    IF IsOpIn(toks, i, {"Mul", "Div"})
    THEN LET q == RefPower(toks, i + 1)
         IN IF q.ok
            THEN RefProductTail(toks, Combine(toks[i].op, acc, q.r), q.next)
            ELSE [ok |-> FALSE]
    ELSE [ok |-> TRUE, r |-> acc, next |-> i]

RefProduct(toks, i) ==
    LET p == RefPower(toks, i)
    IN IF p.ok THEN RefProductTail(toks, p.r, p.next) ELSE p

RefSumTail(toks, acc, i) ==
    IF IsOpIn(toks, i, {"Add", "Sub"})
    THEN LET q == RefProduct(toks, i + 1)
         IN IF q.ok
            THEN RefSumTail(toks, Combine(toks[i].op, acc, q.r), q.next)
            ELSE [ok |-> FALSE]
    ELSE [ok |-> TRUE, r |-> acc, next |-> i]

RefSum(toks, i) ==
    LET p == RefProduct(toks, i)
    IN IF p.ok THEN RefSumTail(toks, p.r, p.next) ELSE p

\* toks is an expression of numbers, binary operators and balanced
\* parentheses
WellFormed(toks) ==
    LET e == RefSum(toks, 1) IN e.ok /\ e.next = Len(toks) + 1

\* its value by the precedence table
RefValue(toks) == RefSum(toks, 1).r

\* C5: for every expression built from numbers, the binary operators
\* + - * / ^ and balanced parentheses, the postfix sequence to_rpn produces
\* evaluates to the value of the expression grouped by the precedence table
\* (+,- lowest; *,/ middle; ^ highest), equal-precedence + - * / applied
\* left to right, ^ grouped right to left, parentheses overriding both:
\* "2 + 3 * 4" is 14, "(2 + 3) * 4" is 20, "2 ^ 3 ^ 2" is 512.
C5_PrecedenceAndAssociativity ==
    /\ (Tokenized /\ pc # "to_rpn" /\ WellFormed(tokens)) =>
          /\ result # Err(ErrParen)
          /\ pc # "panicked"
          /\ pc = "format" => RefValue(tokens) = [k |-> "val", v |-> value]
          /\ pc = "done" =>
                \/ /\ RefValue(tokens).k = "val"
                   /\ result = Ok(format_float(RefValue(tokens).v))
                \/ /\ RefValue(tokens) = [k |-> "err", msg |-> ErrDivZero]
                   /\ result = Err(ErrDivZero)
    /\ pc = "done" =>
          /\ input = Ex_2plus3mul4  => result = Ok(<<"1", "4">>)
          /\ input = Ex_P2plus3mul4 => result = Ok(<<"2", "0">>)
          /\ input = Ex_2pow3pow2   => result = Ok(<<"5", "1", "2">>)

\* evaluate("2 ^ 3 ^ 2") has returned "512", the value of 2^(3^2)
C5_Witness ==
    /\ pc = "done"
    /\ input = Ex_2pow3pow2
    /\ WellFormed(tokens)
    /\ output = <<Number(Rat(2, 1)), Number(Rat(3, 1)), Number(Rat(2, 1)),
                  Op("Pow"), Op("Pow")>>
    /\ result = Ok(<<"5", "1", "2">>)

----------------------------------------------------------------------------
(* Unary minus *)

NotWhitespace(c) == ~is_whitespace(c)

\* the index of the last character before i that is not whitespace, or 0
RECURSIVE PrevChar(_, _)
PrevChar(inp, i) ==
    IF i <= 1 THEN 0
    ELSE IF is_whitespace(inp[i - 1]) THEN PrevChar(inp, i - 1)
    ELSE i - 1

\* tokenize has just consumed a `-` that stands at the start of the input,
\* after an operator or after `(`
JustReadUnaryMinus ==
    /\ pc = "tokenize" /\ pos > 1
    /\ input[pos - 1] = "-"
    /\ LET j == PrevChar(input, pos - 1)
       IN j = 0 \/ input[j] \in {"+", "-", "*", "/", "^", "("}

\* the input is `-a ^ b`: a leading minus, a number, `^`, a number
IsNegPower ==
    /\ Tokenized
    /\ SelectSeq(input, NotWhitespace) # <<>>
    /\ SelectSeq(input, NotWhitespace)[1] = "-"
    /\ Len(tokens) = 5
    /\ tokens[1] = Number(Zero) /\ tokens[2] = Op("Sub")
    /\ tokens[3].t = "Number" /\ tokens[4] = Op("Pow")
    /\ tokens[5].t = "Number"

\* (0 - a) ^ b
NegThenPower(a, b) ==
    Combine("Pow", Combine("Sub", Val(Zero), Val(a)), Val(b))

\* 0 - (a ^ b)
PowerThenNeg(a, b) ==
    Combine("Sub", Val(Zero), Combine("Pow", Val(a), Val(b)))

\* the last two tokens are Number(0), Operator(Sub)
EndsWithZeroSub ==
    /\ Len(tokens) >= 2
    /\ tokens[Len(tokens) - 1] = Number(Zero)
    /\ tokens[Len(tokens)] = Op("Sub")

\* C2 as stated: a unary minus is emitted as Number(0), Operator(Sub), and
\* `-a ^ b` evaluates as (0 - a) ^ b: evaluate("-2 ^ 2") returns "4".
C2_NegPowerAsStated ==
    /\ JustReadUnaryMinus => EndsWithZeroSub
    /\ (pc = "done" /\ IsNegPower) =>
          /\ NegThenPower(tokens[3].v, tokens[5].v).k = "val"
          /\ result = Ok(format_float(NegThenPower(tokens[3].v, tokens[5].v).v))
    /\ (pc = "done" /\ input = Ex_neg2pow2) => result = Ok(<<"4">>)

\* C2, amended: a unary minus is emitted as Number(0), Operator(Sub), and
\* `-a ^ b` evaluates as 0 - (a ^ b), the power binding tighter than the
\* subtraction from zero: evaluate("-2 ^ 2") returns "-4".
C2_NegPowerAmended ==
    /\ JustReadUnaryMinus => EndsWithZeroSub
    /\ (pc = "format" /\ IsNegPower) =>
          PowerThenNeg(tokens[3].v, tokens[5].v) = [k |-> "val", v |-> value]
    /\ (pc = "done" /\ IsNegPower) =>
          /\ PowerThenNeg(tokens[3].v, tokens[5].v).k = "val"
          /\ result = Ok(format_float(PowerThenNeg(tokens[3].v, tokens[5].v).v))
    /\ (pc = "done" /\ input = Ex_neg2pow2) => result = Ok(<<"-", "4">>)

\* evaluate("-2 ^ 2") has tokenized to 0 - 2 ^ 2 and returned "-4"
C2_Witness ==
    /\ pc = "done"
    /\ input = Ex_neg2pow2
    /\ IsNegPower
    /\ result = Ok(<<"-", "4">>)

\* C8 as stated: at every step of tokenize the unary-position flag is a
\* function of the last token scanned: true at the start of input, after an
\* operator and after `(`; false after a number, an identifier and `)`.
C8_FlagAsStated ==
    pc = "tokenize" =>
        expect_unary = (tokens = <<>> \/ Last(tokens).t \in {"Op", "LParen"})

\* tokenize is about to read a `-` and the last token is an Identifier
MinusAfterIdent ==
    /\ pc = "tokenize" /\ pos <= Len(input)
    /\ input[pos] = "-"
    /\ tokens # <<>> /\ Last(tokens).t = "Ident"

\* C8, amended: at every step of tokenize the unary-position flag is a
\* function of the last token scanned: true at the start of input, after an
\* operator (a unary minus included), after `(` and after an identifier;
\* false after a number and after `)`.  Consequently a `-` that follows an
\* identifier is emitted as Number(0), Operator(Sub).
C8_FlagAmended ==
    /\ [](pc = "tokenize" =>
            expect_unary =
                (tokens = <<>> \/ Last(tokens).t \in {"Op", "LParen", "Ident"}))
    /\ [][MinusAfterIdent =>
            tokens' = tokens \o <<Number(Zero), Op("Sub")>>
            /\ expect_unary']_vars

\* tokenize has read "x -": the minus after the identifier became 0, Sub
C8_Witness ==
    /\ pc = "tokenize"
    /\ input = Ex_xminus2
    /\ pos = 4
    /\ tokens = <<Ident(<<"x">>), Number(Zero), Op("Sub")>>
    /\ expect_unary

=============================================================================
